---- MODULE Spec2Model ----
(***************************************************************************)
(* WhisperTrigger: the recording-and-transcription pipeline.               *)
(*                                                                         *)
(*   AudioRecorder        audio_recorder.py   capture thread, silence stop *)
(*   WhisperTrigger       main.py             Qt main thread (coordinator) *)
(*   TranscriptionThread  main.py             one QThread per run          *)
(*   ProcessingMode       processing_modes.py text post-processing         *)
(*                                                                         *)
(* Threads: the Qt main thread runs every slot (toggle_recording,          *)
(* on_recording_finished, on_transcription_complete, transcribe_file) one  *)
(* at a time; each start_recording creates a Python thread running         *)
(* _record_audio; each transcribe_audio creates a TranscriptionThread.     *)
(* Signals emitted by the worker threads are queued to the main thread's   *)
(* event queue and handled there in posting order.                         *)
(***************************************************************************)
EXTENDS Integers, Sequences, FiniteSets, TLC

\* ------------------------------------------------------------------ bounds
MaxCalls    == 2      \* calls the user makes in one behaviour
MaxSessions == 2      \* capture threads created in one behaviour
MaxFrames   == 3      \* frames the device delivers in one behaviour
MaxRuns     == 2      \* transcribe_audio calls in one behaviour

\* ------------------------------------------------- recorder configuration
\* AudioRecorder.__init__ keeps the four values for the recorder's lifetime.
\* The values below are a configuration the settings dialog accepts
\* (16000 Hz, chunk 4096, threshold 500, duration 0.6 s, in tenths).
sample_rate              == 16000
chunk_size               == 4096
silence_threshold        == 500
silence_duration_tenths  == 6

\* int(self.silence_duration * self.sample_rate / self.chunk_size) for a
\* duration given in tenths of a second.  The code divides in floating point
\* and truncates; for the chunk sizes the dialog's spin box steps through
\* (multiples of 256) and its rates and durations the result is the exact
\* quotient truncated (for some typed-in sizes, such as 4.1 s at 22050 Hz and
\* 287 samples, the float quotient falls just below an integer).
ThresholdFramesFor(duration_tenths, rate, chunk) ==
  (duration_tenths * rate) \div (10 * chunk)

threshold_frames ==
  ThresholdFramesFor(silence_duration_tenths, sample_rate, chunk_size)

\* the audio settings of the default configuration (1.0 s in tenths)
default_sample_rate             == 16000
default_chunk_size              == 1024
default_silence_duration_tenths == 10

Sessions == 1..MaxSessions
Runs     == 1..MaxRuns

\* Paths. _save_audio names a file after the clock second; transcribe_file
\* passes a path the user picked; _save_audio returns None on an empty buffer.
NoPath       == [kind |-> "none", ts |-> 0]
UserPath     == [kind |-> "user", ts |-> 0]
RecPath(ts)  == [kind |-> "rec",  ts |-> ts]

\* --------------------------------------------------------------- state
VARIABLES
  \* AudioRecorder
  input_device_index,   \* "none" or "dev0" (set once by __init__)
  is_recording,
  audio_data,           \* the shared frame buffer
  silent_chunks,
  recording_thread,     \* the Thread object of the last start_recording (0: no attribute)
  cpc,                  \* capture thread -> position in _record_audio
  cdata,                \* capture thread -> its local `data`
  cfile,                \* capture thread -> its local `audio_file`
  nframes,              \* frames the device has delivered
  now,                  \* int(time.time()) as _save_audio last read it
  files,                \* clock second -> frames of recording_<second>.wav (<<>>: no file)
  stream,               \* capture thread -> its PyAudio stream: "none", "open", "closed"
  \* WhisperTrigger (Qt main thread)
  mainpc,               \* "idle": in the event loop; "join": inside recording_thread.join
  events,               \* queued signal deliveries to the main thread
  active_mode,          \* config["active_mode"]
  modes,                \* keys of self.modes
  engine,               \* TranscriptionEngine: [model, language] (self.model, self.language)
  transcription_thread, \* the last TranscriptionThread created (0: none)
  \* TranscriptionThread
  tpc,                  \* run -> "unborn", "start", "transcribing", "decoding", "done"
  taudio,               \* run -> audio_file
  tmode,                \* run -> processing_mode ("None" when the lookup found nothing)
  tactive,              \* history: run -> config["active_mode"] when transcribe_audio ran
  tengine,              \* run -> [entry, used]: the engine's model and language when the
                        \*        run entered engine.transcribe (history), and the ones
                        \*        it passed to self.model.transcribe
  tapplied,             \* history: run -> the mode whose process() run() called, and
                        \*          config["active_mode"] at that moment
  \* callback effects
  delivered,            \* texts on_transcription_complete received, in order
  \* history (not program state)
  captured,             \* capture thread -> frames its stream.read returned
  user_stopped,         \* capture threads that were alive when stop_recording cleared the flag
  len_at_stop,          \* capture thread -> frames it had read when that happened first
  saved_by,             \* clock second -> capture thread that wrote the file there last
  save_failed,          \* capture threads whose _save_audio could not write the file
  finished_by,          \* capture thread -> number of recording_finished emits
  toutcome,             \* run -> what engine.transcribe did
  last_call,            \* the last recorder/coordinator call and how it took effect
  burst,                \* the calls made since Idle with no other step between them
  ncalls,               \* calls the user has made (toggle, start, stop, transcribe_file)
  \* a direct call of a pure function on a chosen input:
  \* _is_silent [phase, T, frame, silent] or process [phase, mode, text, out]
  probe

rec_vars  == <<input_device_index, is_recording, audio_data, silent_chunks,
               recording_thread, cpc, cdata, cfile, nframes, now, files,
               stream>>
main_vars == <<mainpc, events, active_mode, modes, engine,
               transcription_thread>>
run_vars  == <<tpc, taudio, tmode, delivered, tactive, tengine, tapplied>>
hist_vars == <<captured, user_stopped, len_at_stop, saved_by, save_failed,
               finished_by, toutcome, last_call, burst, ncalls>>
vars == <<rec_vars, main_vars, run_vars, hist_vars, probe>>

\* ------------------------------------------------- float32 arithmetic
\* _is_silent computes in numpy float32: audio_array.astype(np.float32),
\* np.square, np.mean (which accumulates float32 input in float32) and
\* np.sqrt.  Every value below is a non-negative integer below 2^31 or a
\* quotient of one by a power of two; float32 keeps 24 significant bits and
\* rounds to nearest, ties to even.

\* the number of low bits a value loses in float32
F32Shift(v) ==
  CHOOSE s \in 0..7 : v < 2^(24 + s) /\ (s = 0 \/ v >= 2^(23 + s))

\* v rounded to float32
F32(v) ==
  LET s == F32Shift(v)
      q == v \div 2^s
      r == v % 2^s
  IN  IF s = 0 THEN v
      ELSE IF 2 * r > 2^s \/ (2 * r = 2^s /\ q % 2 = 1) THEN (q + 1) * 2^s
      ELSE q * 2^s

\* np.square(audio_array.astype(np.float32)): each square rounded
SquareF32(frame) == [i \in 1..Len(frame) |-> F32(frame[i] * frame[i])]

\* a[i] + a[i+step] + ... (m terms), each addition rounded
RECURSIVE LaneSum(_, _, _, _, _)
LaneSum(acc, a, i, step, m) ==
  IF m = 0 THEN acc
  ELSE LaneSum(F32(acc + a[i]), a, i + step, step, m - 1)

\* numpy's pairwise summation of a[lo+1 .. lo+n] (the add.reduce inner loop):
\* fewer than 8 terms are added in order; up to 128 terms go through eight
\* running sums that are then added as a tree, the rest in order; longer
\* blocks are split in two halves (the first a multiple of 8) and recursed.
RECURSIVE PairwiseSum(_, _, _)
PairwiseSum(a, lo, n) ==
  IF n < 8 THEN LaneSum(0, a, lo + 1, 1, n)
  ELSE IF n <= 128 THEN
    LET m    == n \div 8
        r(j) == LaneSum(0, a, lo + 1 + j, 8, m)
        tree == F32(F32(F32(r(0) + r(1)) + F32(r(2) + r(3)))
                    + F32(F32(r(4) + r(5)) + F32(r(6) + r(7))))
    IN  LaneSum(tree, a, lo + 1 + 8 * m, 1, n - 8 * m)
  ELSE
    LET h  == n \div 2
        n2 == h - (h % 8)
    IN  F32(PairwiseSum(a, lo, n2) + PairwiseSum(a, lo + n2, n - n2))

\* the largest k with 2^k < T (-1 for T = 1): floats in [2^k, 2^(k+1)) are
\* 2^(k-23) apart, so the float32 just below T is T - 2^(k-23)
ExpBelow(T) == CHOOSE k \in -1..29 : 2^(k + 1) >= T /\ (k = -1 \/ 2^k < T)

\* np.sqrt(mean) < T for mean = s / n (n a power of two, so the division is
\* exact) and an integer T >= 1.  The correctly rounded root is below T
\* exactly when sqrt(s/n) < T - 2^(k-24), that is when
\* (n*T*T - s) * 2^(23-k) >= n*T; the comparison is made without leaving
\* 31 bits.
RootBelow(s, n, T) ==
  LET d == n * T * T - s
      p == 2^(23 - ExpBelow(T))
  IN  IF d <= 0 THEN FALSE
      ELSE IF d >= n * T THEN TRUE
      ELSE d >= (n * T + p - 1) \div p

\* AudioRecorder._is_silent with self.silence_threshold = T.  The mean of an
\* empty array is nan, and nan < T is False.
IsSilentAt(frame, T) ==
  IF Len(frame) = 0 THEN FALSE
  ELSE RootBelow(PairwiseSum(SquareF32(frame), 0, Len(frame)), Len(frame), T)

_is_silent(frame) == IsSilentAt(frame, silence_threshold)

\* ------------------------------------------------------ the audio device
\* stream.read returns one chunk of int16 samples.  Two chunks stand for
\* speech and for a quiet room (shortened to two samples each).
LoudChunk  == <<1000, -1000>>
QuietChunk == <<3, -2>>
DeviceChunks == {LoudChunk, QuietChunk}

NoFrame == [by |-> 0, n |-> 0, pcm |-> <<>>]
\* the n-th chunk read by capture thread t (by and n are history tags)
Frame(t, n, pcm) == [by |-> t, n |-> n, pcm |-> pcm]

Alive(t) == t \in Sessions /\ cpc[t] \notin {"unborn", "done"}
InLoop(t) == cpc[t] \in {"read", "silence"}

\* ------------------------------------------------------------ Init
\* the modes load_modes always creates
BuiltinModes == {"default", "formatting", "raw", "notes", "email", "code"}

\* load_modes(modes_dir): the built-in modes, then modes[mode.name] = mode for
\* every custom file that parses (custom: the names in those files)
load_modes(custom) == BuiltinModes \cup custom

\* TranscriptionEngine(model_name=config["model"], language=config["language"])
\* with the default configuration
DefaultEngine == [model |-> "base", language |-> "en"]
\* a run that has not entered engine.transcribe
NoEngine == [model |-> "None", language |-> "None"]

\* the application after WhisperTrigger.__init__, the mode map apart
InitComponents ==
  /\ input_device_index \in {"dev0", "none"}
  /\ is_recording = FALSE
  /\ audio_data = <<>>
  /\ silent_chunks = 0
  /\ recording_thread = 0
  /\ cpc = [t \in Sessions |-> "unborn"]
  /\ cdata = [t \in Sessions |-> NoFrame]
  /\ cfile = [t \in Sessions |-> NoPath]
  /\ nframes = 0
  /\ now = 0
  /\ files = [c \in 0..MaxSessions |-> <<>>]
  /\ stream = [t \in Sessions |-> "none"]
  /\ mainpc = "idle"
  /\ events = <<>>
  /\ active_mode = "default"
  /\ engine = DefaultEngine
  /\ transcription_thread = 0
  /\ tpc = [r \in Runs |-> "unborn"]
  /\ taudio = [r \in Runs |-> NoPath]
  /\ tmode = [r \in Runs |-> "None"]
  /\ tactive = [r \in Runs |-> "None"]
  /\ tengine = [r \in Runs |-> [entry |-> NoEngine, used |-> NoEngine]]
  /\ tapplied = [r \in Runs |-> [mode |-> "None", config |-> "None"]]
  /\ delivered = <<>>
  /\ captured = [t \in Sessions |-> <<>>]
  /\ user_stopped = {}
  /\ len_at_stop = [t \in Sessions |-> 0]
  /\ saved_by = [c \in 0..MaxSessions |-> 0]
  /\ save_failed = {}
  /\ finished_by = [t \in Sessions |-> 0]
  /\ toutcome = [r \in Runs |-> [kind |-> "none", text |-> <<>>]]
  /\ last_call = "none"
  /\ burst = <<>>
  /\ ncalls = 0

\* the application after WhisperTrigger.__init__, no custom mode file present
InitApp ==
  /\ InitComponents
  /\ modes = load_modes({})

Init ==
  /\ InitApp
  /\ probe = [phase |-> "off", T |-> 0, frame |-> <<>>, silent |-> FALSE]

\* what every worker-thread step leaves alone
WorkerFrame == /\ last_call' = "none"
               /\ burst' = <<>>
               /\ UNCHANGED <<probe, input_device_index, active_mode, engine, modes,
                              ncalls, len_at_stop>>

\* ------------------------------------------- AudioRecorder._record_audio
\* self.p.open(...); self.silent_chunks = 0
OpenStream(t) ==
  /\ cpc[t] = "open"
  /\ cpc' = [cpc EXCEPT ![t] = "while"]
  /\ stream' = [stream EXCEPT ![t] = "open"]
  /\ silent_chunks' = 0
  /\ UNCHANGED <<is_recording, audio_data, recording_thread, cdata, cfile,
                 nframes, now, files, main_vars, run_vars, captured,
                 user_stopped, saved_by, save_failed, finished_by, toutcome>>
  /\ WorkerFrame

\* self.p.open(...) raises (the device is busy or refuses the format): no
\* stream exists; the except clause of _record_audio logs and clears the
\* flag that start_recording had set, and the thread ends
OpenFails(t) ==
  /\ cpc[t] = "open"
  /\ is_recording' = FALSE
  /\ cpc' = [cpc EXCEPT ![t] = "done"]
  /\ UNCHANGED <<audio_data, silent_chunks, recording_thread, cdata, cfile,
                 nframes, now, files, stream, main_vars, run_vars, captured,
                 user_stopped, saved_by, save_failed, finished_by, toutcome>>
  /\ WorkerFrame

\* the loop is left with the stream still open (stream.stop_stream() and
\* stream.close() moved behind the emit)
LoopTestLeavesStreamOpen(t) ==
  /\ cpc[t] = "while"
  /\ cpc' = [cpc EXCEPT ![t] = IF is_recording THEN "read" ELSE "save"]
  /\ UNCHANGED <<is_recording, audio_data, silent_chunks, recording_thread,
                 cdata, cfile, nframes, now, files, stream, main_vars,
                 run_vars, captured, user_stopped, saved_by, save_failed,
                 finished_by, toutcome>>
  /\ WorkerFrame

\* while self.is_recording: ... and, once the flag is clear,
\* stream.stop_stream(); stream.close()
LoopTest(t) ==
  /\ cpc[t] = "while"
  /\ cpc' = [cpc EXCEPT ![t] = IF is_recording THEN "read" ELSE "save"]
  /\ stream' = IF is_recording THEN stream ELSE [stream EXCEPT ![t] = "closed"]
  /\ UNCHANGED <<is_recording, audio_data, silent_chunks, recording_thread,
                 cdata, cfile, nframes, now, files, main_vars, run_vars,
                 captured, user_stopped, saved_by, save_failed, finished_by, toutcome>>
  /\ WorkerFrame

\* data = stream.read(self.chunk_size, exception_on_overflow=False)
\* self.audio_data.append(data)
\* The thread waits in "read" for the device; the chunk is appended as the
\* read returns (the audio_data_signal emit feeds the waveform widget only).
ReadChunk(t) ==
  /\ cpc[t] = "read"
  /\ nframes < MaxFrames
  /\ \E pcm \in DeviceChunks :
       LET f == Frame(t, Len(captured[t]) + 1, pcm)
       IN  /\ cdata' = [cdata EXCEPT ![t] = f]
           /\ captured' = [captured EXCEPT ![t] = Append(@, f)]
           /\ audio_data' = Append(audio_data, f)
  /\ nframes' = nframes + 1
  /\ cpc' = [cpc EXCEPT ![t] = "silence"]
  /\ UNCHANGED <<is_recording, silent_chunks, recording_thread,
                 cfile, now, files, stream, main_vars, run_vars,
                 user_stopped, saved_by, save_failed, finished_by, toutcome>>
  /\ WorkerFrame

\* the except clause of _record_audio without `self.is_recording = False`
ReadFailsKeepsFlag(t) ==
  /\ cpc[t] = "read"
  /\ cpc' = [cpc EXCEPT ![t] = "done"]
  /\ UNCHANGED <<is_recording, audio_data, silent_chunks, recording_thread,
                 cdata, cfile, nframes, now, files, stream, main_vars,
                 run_vars, captured, user_stopped, saved_by, save_failed,
                 finished_by, toutcome>>
  /\ WorkerFrame

\* stream.read raises (a device error other than an input overflow, which
\* exception_on_overflow=False turns into a normal return): control goes to
\* the except clause of _record_audio, which logs and clears the flag; the
\* thread ends there
ReadFails(t) ==
  /\ cpc[t] = "read"
  /\ is_recording' = FALSE
  /\ cpc' = [cpc EXCEPT ![t] = "done"]
  /\ UNCHANGED <<audio_data, silent_chunks, recording_thread, cdata, cfile,
                 nframes, now, files, stream, main_vars, run_vars, captured,
                 user_stopped, saved_by, save_failed, finished_by, toutcome>>
  /\ WorkerFrame

\* the silence check stopping one frame late (> instead of >=)
SilenceStepLate(count, pcm, n) ==
  IF _is_silent(pcm)
  THEN [count |-> count + 1, stop |-> count + 1 > n]
  ELSE [count |-> 0, stop |-> FALSE]

\* the silence check of one chunk with threshold_frames = n: the new count
\* and whether the loop's flag is cleared
SilenceStepAt(count, pcm, n) ==
  IF _is_silent(pcm)
  THEN [count |-> count + 1, stop |-> count + 1 >= n]
  ELSE [count |-> 0, stop |-> FALSE]

SilenceStep(count, pcm) == SilenceStepAt(count, pcm, threshold_frames)

\* if self._is_silent(audio_array): ... else: self.silent_chunks = 0
CheckSilence(t) ==
  /\ cpc[t] = "silence"
  /\ LET s == SilenceStep(silent_chunks, cdata[t].pcm)
     IN  /\ silent_chunks' = s.count
         /\ is_recording' = IF s.stop THEN FALSE ELSE is_recording
  /\ cpc' = [cpc EXCEPT ![t] = "while"]
  /\ cdata' = [cdata EXCEPT ![t] = NoFrame]     \* `data` is not read again
  /\ UNCHANGED <<audio_data, recording_thread, cfile, nframes, now,
                 files, stream, main_vars, run_vars, captured, user_stopped,
                 saved_by, save_failed, finished_by, toutcome>>
  /\ WorkerFrame

\* AudioRecorder._save_audio: None for an empty buffer, else the buffer is
\* written to recording_<int(time.time())>.wav and the path returned
SavedPath(buffer, clock) == IF buffer = <<>> THEN NoPath ELSE RecPath(clock)

\* audio_file = self._save_audio().  The clock is read here only: it shows
\* the second of the previous save or a later one.
SaveAudio(t) ==
  /\ cpc[t] = "save"
  /\ IF audio_data = <<>>
     THEN /\ cfile' = [cfile EXCEPT ![t] = SavedPath(audio_data, now)]
          /\ UNCHANGED <<files, saved_by, now>>
     ELSE \E clock \in {now, now + 1} :
          /\ clock \in DOMAIN files
          /\ now' = clock
          /\ cfile' = [cfile EXCEPT ![t] = SavedPath(audio_data, clock)]
          /\ files' = [files EXCEPT ![clock] = audio_data]
          /\ saved_by' = [saved_by EXCEPT ![clock] = t]
  /\ cpc' = [cpc EXCEPT ![t] = "emit"]
  /\ UNCHANGED <<is_recording, audio_data, silent_chunks, recording_thread,
                 cdata, nframes, stream, main_vars, run_vars, captured,
                 user_stopped, save_failed, finished_by, toutcome>>
  /\ WorkerFrame

\* audio_file = self._save_audio() when wave.open or writeframes raises (the
\* temporary directory is gone or full): the except clause of _save_audio
\* logs and returns None
SaveFails(t) ==
  /\ cpc[t] = "save"
  /\ audio_data # <<>>
  /\ cfile' = [cfile EXCEPT ![t] = NoPath]
  /\ save_failed' = save_failed \cup {t}
  /\ cpc' = [cpc EXCEPT ![t] = "emit"]
  /\ UNCHANGED <<is_recording, audio_data, silent_chunks, recording_thread,
                 cdata, nframes, now, files, stream, main_vars, run_vars,
                 captured, user_stopped, saved_by, finished_by, toutcome>>
  /\ WorkerFrame

\* self.recording_finished.emit(audio_file).  The signal is pyqtSignal(str):
\* emitting None raises TypeError, which the except clause of _record_audio
\* catches (self.is_recording = False).
EmitFinished(t) ==
  /\ cpc[t] = "emit"
  /\ IF cfile[t] = NoPath
     THEN /\ is_recording' = FALSE
          /\ UNCHANGED <<events, finished_by>>
     ELSE /\ events' = Append(events, [sig |-> "recording_finished",
                                       file |-> cfile[t], text |-> <<>>,
                                       from |-> t])
          /\ finished_by' = [finished_by EXCEPT ![t] = @ + 1]
          /\ UNCHANGED is_recording
  /\ cpc' = [cpc EXCEPT ![t] = "done"]
  /\ cfile' = [cfile EXCEPT ![t] = NoPath]       \* the thread's locals are gone
  /\ UNCHANGED <<audio_data, silent_chunks, recording_thread, cdata,
                 nframes, now, files, stream, mainpc, active_mode, engine,
                 modes, transcription_thread, run_vars, captured,
                 user_stopped, saved_by, save_failed, toutcome>>
  /\ last_call' = "none" /\ burst' = <<>>
  /\ UNCHANGED <<probe, input_device_index, ncalls, len_at_stop>>

CaptureStep(t) ==
  \/ OpenStream(t) \/ OpenFails(t) \/ LoopTest(t) \/ ReadChunk(t)
  \/ ReadFails(t) \/ CheckSilence(t) \/ SaveAudio(t) \/ SaveFails(t)
  \/ EmitFinished(t)

\* ------------------------------------------------ ProcessingMode.process
Whitespace == {" ", "\t", "\n"}
LowerLetters == <<"a", "b", "c", "d", "e", "f", "g", "h", "i", "j", "k", "l", "m",
                  "n", "o", "p", "q", "r", "s", "t", "u", "v", "w", "x", "y", "z">>
UpperLetters == <<"A", "B", "C", "D", "E", "F", "G", "H", "I", "J", "K", "L", "M",
                  "N", "O", "P", "Q", "R", "S", "T", "U", "V", "W", "X", "Y", "Z">>

\* c.upper() for one character
Upper(c) ==
  IF \E i \in 1..Len(LowerLetters) : LowerLetters[i] = c
  THEN UpperLetters[CHOOSE i \in 1..Len(LowerLetters) : LowerLetters[i] = c]
  ELSE c

RECURSIVE LStrip(_)
LStrip(s) == IF s # <<>> /\ Head(s) \in Whitespace THEN LStrip(Tail(s)) ELSE s

RECURSIVE RStrip(_)
RStrip(s) ==
  IF s # <<>> /\ s[Len(s)] \in Whitespace
  THEN RStrip(SubSeq(s, 1, Len(s) - 1)) ELSE s

\* text.strip()
Strip(s) == RStrip(LStrip(s))

\* process() that does not strip the text first
process_without_strip(text) ==
  LET cap == IF text # <<>>
             THEN <<Upper(Head(text))>> \o Tail(text) ELSE text
  IN  IF cap # <<>> /\ cap[Len(cap)] \notin {".", "!", "?"}
      THEN Append(cap, ".") ELSE cap

\* process() that appends '.' whatever the text ends in
process_appends_always(text) ==
  LET stripped == Strip(text)
      cap == IF stripped # <<>>
             THEN <<Upper(Head(stripped))>> \o Tail(stripped) ELSE stripped
  IN  IF cap # <<>> THEN Append(cap, ".") ELSE cap

\* ProcessingMode.process(text); the mode's fields are not consulted
process(text) ==
  LET stripped == Strip(text)
      cap == IF stripped # <<>>
             THEN <<Upper(Head(stripped))>> \o Tail(stripped) ELSE stripped
  IN  IF cap # <<>> /\ cap[Len(cap)] \notin {".", "!", "?"}
      THEN Append(cap, ".") ELSE cap

\* f"Error: {str(e)}"
ErrorText(msg) == <<"E", "r", "r", "o", "r", ":", " ">> \o msg

\* ---------------------------------------------------- the engine (black box)
\* engine.transcribe returns a text or raises; the texts and messages below
\* stand for all of them.
RawTexts == { <<"h", "i">>, <<" ", "o", "k", "!">> }
ErrMsgs  == { <<"n", "o">> }
NoneTypeMsg == <<"N", "o", "n", "e">>   \* 'NoneType' object has no attribute 'process'
EngineOutcomes ==
  [kind : {"text"}, text : RawTexts] \cup [kind : {"raise"}, text : ErrMsgs]

\* ---------------------------------------------------- AudioRecorder calls
Created == {t \in Sessions : cpc[t] # "unborn"}
Idle == ~is_recording /\ mainpc = "idle" /\ \A t \in Sessions : ~Alive(t)

\* the history of calls made back to back, starting from Idle
BurstAfter(call) ==
  IF Idle THEN <<call>>
  ELSE IF Len(burst) = 1 THEN Append(burst, call)
  ELSE <<>>

\* start_recording when it takes effect: lines 87-96
StartSession ==
  LET t == Cardinality(Created) + 1
  IN  /\ t \in Sessions
      /\ is_recording' = TRUE
      /\ audio_data' = <<>>
      /\ silent_chunks' = 0
      /\ recording_thread' = t
      /\ cpc' = [cpc EXCEPT ![t] = "open"]

\* start_recording without the `if self.is_recording: return` guard
start_recording_unguarded ==
  /\ IF input_device_index = "none"
     THEN UNCHANGED <<is_recording, audio_data, silent_chunks,
                      recording_thread, cpc>>
     ELSE StartSession
  /\ UNCHANGED <<input_device_index, cdata, cfile, nframes, now, files,
                 stream, captured, user_stopped, len_at_stop, saved_by, save_failed,
                 finished_by>>

\* AudioRecorder.start_recording
start_recording ==
  /\ IF is_recording \/ input_device_index = "none"
     THEN UNCHANGED <<is_recording, audio_data, silent_chunks,
                      recording_thread, cpc>>
     ELSE StartSession
  /\ UNCHANGED <<input_device_index, cdata, cfile, nframes, now, files,
                 stream, captured, user_stopped, len_at_stop, saved_by, save_failed,
                 finished_by>>

\* the frames each capture thread had read when a stop first reached it
LenAtStop ==
  [t \in Sessions |->
     IF Alive(t) /\ t \notin user_stopped THEN Len(captured[t])
     ELSE len_at_stop[t]]

\* stop_recording without the `if not self.is_recording: return` guard
stop_recording_unguarded ==
  /\ is_recording' = FALSE
  /\ user_stopped' = user_stopped \cup {t \in Sessions : Alive(t)}
  /\ len_at_stop' = LenAtStop
  /\ mainpc' = IF Alive(recording_thread) THEN "join" ELSE mainpc
  /\ UNCHANGED <<input_device_index, audio_data, silent_chunks,
                 recording_thread, cpc, cdata, cfile, nframes, now, files,
                 stream, captured, saved_by, save_failed, finished_by>>

\* AudioRecorder.stop_recording; the main thread waits in "join" when the
\* call reaches recording_thread.join(timeout=1.0)
stop_recording ==
  /\ IF ~is_recording
     THEN UNCHANGED <<is_recording, mainpc, user_stopped, len_at_stop>>
     ELSE /\ is_recording' = FALSE
          /\ user_stopped' = user_stopped \cup {t \in Sessions : Alive(t)}
          /\ len_at_stop' = LenAtStop
          /\ mainpc' = IF Alive(recording_thread) THEN "join" ELSE mainpc
  /\ UNCHANGED <<input_device_index, audio_data, silent_chunks,
                 recording_thread, cpc, cdata, cfile, nframes, now, files,
                 stream, captured, saved_by, save_failed, finished_by>>

\* a direct call recorder.start_recording()
StartRecordingCall ==
  /\ mainpc = "idle"
  /\ ncalls < MaxCalls
  /\ ncalls' = ncalls + 1
  /\ start_recording
  /\ last_call' = IF is_recording THEN "start_noop" ELSE "start"
  /\ burst' = BurstAfter("start")
  /\ UNCHANGED <<main_vars, run_vars, toutcome, probe>>

\* a direct call recorder.stop_recording()
StopRecordingCall ==
  /\ mainpc = "idle"
  /\ ncalls < MaxCalls
  /\ ncalls' = ncalls + 1
  /\ stop_recording
  /\ last_call' = IF is_recording THEN "stop" ELSE "stop_noop"
  /\ burst' = BurstAfter("stop")
  /\ UNCHANGED <<events, active_mode, engine, modes,
                 transcription_thread, run_vars, toutcome, probe>>

\* ---------------------------------------------------- WhisperTrigger slots
\* toggle_recording that calls start_recording whatever the flag says
toggle_always_starts == start_recording /\ UNCHANGED mainpc

\* toggle_recording that does nothing while a transcription is in flight
toggle_blocked_while_transcribing ==
  IF \E r \in Runs : tpc[r] \in {"start", "transcribing", "decoding"}
  THEN UNCHANGED <<rec_vars, mainpc, captured, user_stopped, len_at_stop,
                   saved_by, save_failed, finished_by>>
  ELSE IF is_recording
  THEN stop_recording
  ELSE start_recording /\ UNCHANGED mainpc

\* WhisperTrigger.toggle_recording (the waveform widget it shows and hides
\* is not part of the state)
toggle_recording ==
  IF is_recording
  THEN stop_recording
  ELSE start_recording /\ UNCHANGED mainpc

ToggleRecording ==
  /\ mainpc = "idle"
  /\ ncalls < MaxCalls
  /\ ncalls' = ncalls + 1
  /\ toggle_recording
  /\ last_call' = "toggle"
  /\ burst' = BurstAfter("toggle")
  /\ UNCHANGED <<events, active_mode, engine, modes, transcription_thread, run_vars,
                 toutcome, probe>>

\* recording_thread.join(timeout=1.0) returns: the thread has ended, or the
\* second has passed
JoinReturn ==
  /\ mainpc = "join"
  /\ mainpc' = "idle"
  /\ UNCHANGED <<rec_vars, events, active_mode, engine, modes, transcription_thread,
                 run_vars, captured, user_stopped, len_at_stop, saved_by, save_failed,
                 finished_by, toutcome, last_call, burst, ncalls, probe>>

\* self.modes.get(name, self.modes.get("default"))
ModeFor(name) ==
  IF name \in modes THEN name
  ELSE IF "default" \in modes THEN "default" ELSE "None"

\* WhisperTrigger.transcribe_audio(audio_file)
transcribe_audio(audio_file) ==
  LET r == Cardinality({x \in Runs : tpc[x] # "unborn"}) + 1
      mode == ModeFor(active_mode)
  IN  /\ r \in Runs
      /\ tpc' = [tpc EXCEPT ![r] = "start"]
      /\ taudio' = [taudio EXCEPT ![r] = audio_file]
      /\ tmode' = [tmode EXCEPT ![r] = mode]
      /\ tactive' = [tactive EXCEPT ![r] = active_mode]
      /\ transcription_thread' = r
      /\ UNCHANGED tengine

\* the main thread takes the next queued signal: on_recording_finished or
\* on_transcription_complete
HandleEvent ==
  /\ mainpc = "idle"
  /\ events # <<>>
  /\ events' = Tail(events)
  /\ LET e == Head(events)
     IN  IF e.sig = "recording_finished"
         THEN /\ transcribe_audio(e.file)
              /\ UNCHANGED delivered
         ELSE /\ delivered' = Append(delivered, [text |-> e.text, run |-> e.from])
              /\ UNCHANGED <<transcription_thread, tpc, taudio, tmode, tactive, tengine>>
  /\ UNCHANGED <<rec_vars, mainpc, active_mode, engine, modes, tapplied, captured,
                 user_stopped, len_at_stop, saved_by, save_failed, finished_by, toutcome,
                 ncalls, probe>>
  /\ last_call' = "none" /\ burst' = <<>>

\* WhisperTrigger.transcribe_file with a file chosen in the dialog
TranscribeFile ==
  /\ mainpc = "idle"
  /\ ncalls < MaxCalls
  /\ ncalls' = ncalls + 1
  /\ transcribe_audio(UserPath)
  /\ UNCHANGED <<rec_vars, mainpc, events, active_mode, engine, modes,
                 delivered, tapplied, captured, user_stopped, len_at_stop,
                 saved_by, save_failed, finished_by, toutcome, probe>>
  /\ last_call' = "none" /\ burst' = <<>>

\* the modes picked in the settings dialog's "Current Mode" combo box
ModeChoices == {"default", "raw"}
\* the model and language picked in the dialog's combo boxes
EngineChoices == { [model |-> "base", language |-> "en"],
                   [model |-> "small", language |-> "de"] }

\* TranscriptionEngine.set_model: a new name is stored and its model loaded
\* (the dialog offers the names of MODEL_SIZES only)
set_model(e, model_name) ==
  IF model_name # e.model THEN [e EXCEPT !.model = model_name] ELSE e

\* TranscriptionEngine.set_language
set_language(e, language) == [e EXCEPT !.language = language]

\* WhisperTrigger.show_settings, the dialog accepted: self.config is replaced
\* by dialog.get_config(), whose active_mode is the combo box's choice, and
\* the engine is given the configured model and language
ShowSettings ==
  /\ mainpc = "idle"
  /\ ncalls < MaxCalls
  /\ ncalls' = ncalls + 1
  /\ \E m \in ModeChoices \cap modes : active_mode' = m
  /\ \E c \in EngineChoices :
       engine' = set_language(set_model(engine, c.model), c.language)
  /\ UNCHANGED <<rec_vars, mainpc, events, modes, transcription_thread,
                 run_vars, captured, user_stopped, len_at_stop, saved_by, save_failed,
                 finished_by, toutcome, probe>>
  /\ last_call' = "none" /\ burst' = <<>>

\* ------------------------------------------------ TranscriptionThread.run
\* the thread enters self.engine.transcribe(self.audio_file): the file is
\* looked up and _prepare_audio probes it and has ffmpeg convert it
BeginTranscribe(r) ==
  /\ tpc[r] = "start"
  /\ tpc' = [tpc EXCEPT ![r] = "transcribing"]
  /\ tengine' = [tengine EXCEPT ![r].entry = engine]
  /\ UNCHANGED <<rec_vars, main_vars, taudio, tmode, delivered, tactive,
                 tapplied, captured, user_stopped, saved_by, save_failed,
                 finished_by, toutcome>>
  /\ WorkerFrame

\* TranscriptionEngine.transcribe, lines 103-110: _prepare_audio has
\* returned and self.model.transcribe(audio_file, language=self.language, ...)
\* is called; self.model and self.language are read here
ModelTranscribe(r) ==
  /\ tpc[r] = "transcribing"
  /\ tpc' = [tpc EXCEPT ![r] = "decoding"]
  /\ tengine' = [tengine EXCEPT ![r].used = engine]
  /\ UNCHANGED <<rec_vars, main_vars, taudio, tmode, delivered, tactive,
                 tapplied, captured, user_stopped, saved_by, save_failed,
                 finished_by, toutcome>>
  /\ WorkerFrame

\* run() whose except clause logs the error and emits nothing
RunEmitsNothingOnRaise(outcome, mode) ==
  IF outcome.kind = "raise" THEN << >>
  ELSE IF mode = "None" THEN << ErrorText(NoneTypeMsg) >>
  ELSE << process(outcome.text) >>

\* run() whose except clause emits the message as if it were a transcript
RunEmitsTranscriptOnRaise(outcome, mode) ==
  IF outcome.kind = "raise" THEN << process(outcome.text) >>
  ELSE IF mode = "None" THEN << ErrorText(NoneTypeMsg) >>
  ELSE << process(outcome.text) >>

\* the texts run() emits on transcription_complete for one engine outcome:
\* the processed text, or "Error: ..." from the except clause
RunEmits(outcome, mode) ==
  IF outcome.kind = "raise" THEN << ErrorText(outcome.text) >>
  ELSE IF mode = "None" THEN << ErrorText(NoneTypeMsg) >>
  ELSE << process(outcome.text) >>

\* run() reading the configuration's mode when the engine returns, instead
\* of the mode object the thread was created with
RunModeAtReturn(r) == ModeFor(active_mode)

\* self.processing_mode inside run(): the object given to __init__
RunMode(r) == tmode[r]

\* engine.transcribe returns or raises, and run() finishes
EngineReturn(r) ==
  /\ tpc[r] = "decoding"
  /\ \E o \in EngineOutcomes :
       /\ toutcome' = [toutcome EXCEPT ![r] = o]
       /\ tapplied' = [tapplied EXCEPT
                         ![r] = IF o.kind = "text"
                                THEN [mode |-> RunMode(r), config |-> active_mode]
                                ELSE @]
       /\ events' = events \o
            [i \in 1..Len(RunEmits(o, RunMode(r))) |->
               [sig |-> "transcription_complete", file |-> NoPath,
                text |-> RunEmits(o, RunMode(r))[i], from |-> r]]
  /\ tpc' = [tpc EXCEPT ![r] = "done"]
  /\ UNCHANGED <<rec_vars, mainpc, transcription_thread,
                 taudio, tmode, delivered, tactive, tengine, captured, user_stopped,
                 saved_by, save_failed, finished_by>>
  /\ WorkerFrame

\* ------------------------------------------------------------ Next
Next ==
  \/ ToggleRecording
  \/ StartRecordingCall
  \/ StopRecordingCall
  \/ JoinReturn
  \/ HandleEvent
  \/ TranscribeFile
  \/ ShowSettings
  \/ \E t \in Sessions : CaptureStep(t)
  \/ \E r \in Runs : BeginTranscribe(r) \/ ModelTranscribe(r) \/ EngineReturn(r)

Spec == Init /\ [][Next]_vars

\* ------------------------------------ SettingsDialog: the mode editor
\* The dialog is given self.modes itself and its handlers change that map at
\* once, whether the dialog is accepted or not; while the dialog is open the
\* Qt event loop keeps running the hotkey slots and the queued signals.
NewModeNames == <<"new_mode", "new_mode_1", "new_mode_2", "new_mode_3">>

\* create_new_mode: the first of new_mode, new_mode_1, ... that is no key
create_new_mode ==
  \E i \in 1..Len(NewModeNames) :
    /\ NewModeNames[i] \notin modes
    /\ \A j \in 1..(i - 1) : NewModeNames[j] \in modes
    /\ modes' = modes \cup {NewModeNames[i]}

\* save_current_mode with old_name selected in the edit combo box and
\* new_name in the name field
save_current_mode(old_name, new_name) ==
  modes' = IF new_name = "" THEN modes
           ELSE (IF old_name # new_name THEN modes \ {old_name} ELSE modes)
                  \cup {new_name}

\* delete_current_mode with mode_name selected in the edit combo box
delete_current_mode(mode_name) ==
  modes' = IF mode_name = "default" THEN modes ELSE modes \ {mode_name}

\* the modes selected for editing, and the names typed into the name field
EditChoices == {"default", "raw", "new_mode"}
NameEdits == {"", "default", "dictation"}

\* what a handler of the mode editor leaves alone
EditorFrame ==
  /\ mainpc = "idle"
  /\ ncalls < MaxCalls
  /\ ncalls' = ncalls + 1
  /\ last_call' = "none" /\ burst' = <<>>
  /\ UNCHANGED <<rec_vars, mainpc, events, active_mode, engine,
                 transcription_thread, run_vars, captured, user_stopped,
                 len_at_stop, saved_by, save_failed, finished_by, toutcome,
                 probe>>

CreateNewMode == create_new_mode /\ EditorFrame

SaveCurrentMode ==
  /\ \E old_name \in EditChoices \cap modes :
       \E new_name \in NameEdits \cup {old_name} :
         save_current_mode(old_name, new_name)
  /\ EditorFrame

DeleteCurrentMode ==
  /\ \E mode_name \in EditChoices \cap modes : delete_current_mode(mode_name)
  /\ EditorFrame

NextDialog ==
  \/ Next
  \/ CreateNewMode
  \/ SaveCurrentMode
  \/ DeleteCurrentMode

\* names found in the custom mode files of the modes directory
CustomModeNames == {"dictation", "default"}

InitDialog ==
  /\ InitComponents
  /\ \E custom \in SUBSET CustomModeNames : modes = load_modes(custom)
  /\ probe = [phase |-> "off", T |-> 0, frame |-> <<>>, silent |-> FALSE]

SpecDialog == InitDialog /\ [][NextDialog]_vars

\* ----------------------------------- show_settings, the dialog cancelled
\* dialog = SettingsDialog(self.config, self.modes); dialog.exec() opens it.
\* probe keeps what the application held when the dialog was opened: the
\* keys of self.modes and, of self.config, the active mode and the engine
\* settings.
DialogOpen ==
  /\ mainpc = "idle"
  /\ probe.phase \in {"off", "rejected"}
  /\ probe' = [phase |-> "open", modes |-> modes,
               active_mode |-> active_mode, engine |-> engine]
  /\ UNCHANGED <<rec_vars, main_vars, run_vars, hist_vars>>

\* Cancel (or closing the window): dialog.exec() returns 0 and show_settings
\* does nothing more
DialogReject ==
  /\ probe.phase = "open"
  /\ probe' = [probe EXCEPT !.phase = "rejected"]
  /\ UNCHANGED <<rec_vars, main_vars, run_vars, hist_vars>>

\* the mode editor is used while the dialog is open
SpecCancel ==
  /\ InitDialog
  /\ [][\/ DialogOpen
        \/ CreateNewMode /\ probe.phase = "open"
        \/ SaveCurrentMode /\ probe.phase = "open"
        \/ DeleteCurrentMode /\ probe.phase = "open"
        \/ DialogReject]_vars

\* ------------------------------------------- the pipeline, scheduled fairly
\* every step that is not a call of the user: a step of a capture thread or
\* of a transcription thread, the main thread leaving join or taking a
\* queued signal
SystemStep ==
  \/ JoinReturn
  \/ HandleEvent
  \/ \E t \in Sessions : CaptureStep(t)
  \/ \E r \in Runs : BeginTranscribe(r) \/ ModelTranscribe(r) \/ EngineReturn(r)

\* the pipeline driven through toggle_recording (the hotkey and the tray
\* menu entry), the one caller of start_recording and stop_recording
NextFair == ToggleRecording \/ SystemStep

\* The operating system runs a thread that can run, the Qt event loop takes
\* a queued signal, join(timeout=1.0) returns, a blocking stream.read returns
\* or raises: as long as some step other than a user's call is possible, one
\* is taken.  The user is not obliged to call anything.
SpecFair == Init /\ [][NextFair]_vars /\ WF_vars(SystemStep)

\* ------------------------------- start_recording, statement by statement
\* toggle_recording or a direct call reaches start_recording with the flag
\* clear and a device present; line 89, self.is_recording = True, has run
\* and the main thread stands before line 90 (the capture threads run on)
StartFlag ==
  /\ mainpc = "idle"
  /\ ncalls < MaxCalls
  /\ ~is_recording
  /\ input_device_index # "none"
  /\ ncalls' = ncalls + 1
  /\ is_recording' = TRUE
  /\ mainpc' = "start"
  /\ last_call' = "none" /\ burst' = <<>>
  /\ UNCHANGED <<input_device_index, audio_data, silent_chunks,
                 recording_thread, cpc, cdata, cfile, nframes, now, files,
                 stream, events, active_mode, modes, engine,
                 transcription_thread, run_vars, captured, user_stopped,
                 len_at_stop, saved_by, save_failed, finished_by, toutcome,
                 probe>>

\* lines 90-96: self.audio_data = []; self.silent_chunks = 0; the capture
\* thread is created and started
StartRest ==
  /\ mainpc = "start"
  /\ StartSession
  /\ mainpc' = "idle"
  /\ last_call' = "none" /\ burst' = <<>>
  /\ UNCHANGED <<input_device_index, cdata, cfile, nframes, now, files,
                 stream, events, active_mode, modes, engine,
                 transcription_thread, run_vars, captured, user_stopped,
                 len_at_stop, saved_by, save_failed, finished_by, toutcome,
                 ncalls, probe>>

NextStart ==
  \/ Next
  \/ StartFlag
  \/ StartRest

SpecStart == Init /\ [][NextStart]_vars

\* ----------------------------------------------------- WhisperTrigger.quit
\* WhisperTrigger derives from QApplication and defines quit itself, so the
\* last statement of quit, self.quit(), calls WhisperTrigger.quit again; the
\* interpreter ends the recursion with RecursionError at its recursion limit
\* (1000 frames by default; a few are enough here).
RecursionLimit == 3

\* the tray menu's Quit entry or the quit hotkey invokes the slot.  probe:
\* the line quit stands at (pc), the nesting of quit calls (depth), the
\* listener's is_running flag and how often keyboard_listener.stop took
\* effect, save_config wrote the file, tray_icon.hide ran and
\* QApplication.quit was reached.
QuitCalled ==
  /\ mainpc = "idle"
  /\ probe.phase = "off"
  /\ probe' = [phase |-> "quit", pc |-> "stop", depth |-> 1,
               is_running |-> TRUE, listener_stops |-> 0, stop_calls |-> 0,
               saves |-> 0, hides |-> 0, app_quits |-> 0]
  /\ UNCHANGED <<rec_vars, main_vars, run_vars, hist_vars>>

\* lines 372-374: if self.recorder.is_recording: self.recorder.stop_recording()
QuitStopRecording ==
  /\ probe.phase = "quit" /\ probe.pc = "stop"
  /\ mainpc = "idle"
  /\ stop_recording
  /\ probe' = [probe EXCEPT !.pc = "rest",
                            !.stop_calls = IF is_recording THEN @ + 1 ELSE @]
  /\ UNCHANGED <<events, active_mode, engine, modes, transcription_thread,
                 run_vars, toutcome, last_call, burst, ncalls>>

\* lines 376-384, stop_recording having returned: keyboard_listener.stop()
\* (which does nothing unless is_running), save_config(), tray_icon.hide()
\* and self.quit(): one more frame of quit, or RecursionError at the limit,
\* which no frame of quit catches
QuitRest ==
  /\ probe.phase = "quit" /\ probe.pc = "rest"
  /\ mainpc = "idle"
  /\ probe' = [probe EXCEPT
                 !.is_running = FALSE,
                 !.listener_stops = IF probe.is_running THEN @ + 1 ELSE @,
                 !.saves = @ + 1,
                 !.hides = @ + 1,
                 !.depth = IF @ < RecursionLimit THEN @ + 1 ELSE @,
                 !.pc = IF probe.depth < RecursionLimit THEN "stop"
                        ELSE "raised"]
  /\ UNCHANGED <<rec_vars, main_vars, run_vars, hist_vars>>

\* the application with its tray menu: recording is toggled until Quit is
\* chosen; the capture threads run on while quit executes
NextQuit ==
  \/ ToggleRecording /\ probe.phase = "off"
  \/ QuitCalled
  \/ QuitStopRecording
  \/ QuitRest
  \/ JoinReturn
  \/ \E t \in Sessions : CaptureStep(t)

SpecQuit == Init /\ [][NextQuit]_vars

\* ------------------------------------------------------ KeyboardListener
MaxKeyEvents == 4     \* key events the keyboard delivers in one behaviour

\* keys of the keyboard, as _on_key_press compares them (key.char.lower() or
\* the Key member), and the actions whose hotkeys are followed
KeyboardKeys == {"alt", "r", "x"}
HotkeyActions == {"start_stop_recording", "settings"}
\* hotkey strings split at '+': "alt+r", "alt+x", and two strings the
\* settings dialog's text fields accept as well, "alt+foo" and "foo"
HotkeyStrings == { <<"alt", "r">>, <<"alt", "x">>, <<"alt", "foo">>, <<"foo">> }

\* _parse_hotkeys: per action the frozenset of the keys recognised in its
\* string ('alt' and one-character names here); a name that is neither a
\* modifier, a single character nor a member of keyboard.Key is logged and
\* left out
_parse_hotkeys(hotkeys) ==
  [a \in DOMAIN hotkeys |->
     {hotkeys[a][i] : i \in DOMAIN hotkeys[a]} \cap KeyboardKeys]

\* _check_hotkeys: the actions whose signal is emitted, those whose
\* combination is a subset of the current keys
_check_hotkeys(combinations, current_keys) ==
  {a \in DOMAIN combinations : combinations[a] \subseteq current_keys}

\* the keys named in an action's hotkey string
NamedKeys(hotkeys, a) == {hotkeys[a][i] : i \in DOMAIN hotkeys[a]}

\* KeyboardListener(config["hotkeys"]) after start().  probe: the
\* listener's fields, the keys physically held (down), the actions whose
\* signal the last key event emitted (fired), per action the signals
\* emitted since one of the keys it names was last released (held_emits),
\* and the number of key events so far.
InitKeys ==
  /\ InitApp
  /\ \E hotkeys \in [HotkeyActions -> HotkeyStrings] :
       probe = [phase |-> "keys", is_running |-> TRUE, hotkeys |-> hotkeys,
                hotkey_combinations |-> _parse_hotkeys(hotkeys),
                current_keys |-> {}, down |-> {}, fired |-> {},
                held_emits |-> [a \in HotkeyActions |-> 0], nevents |-> 0]

\* _on_key_press(key): a key goes down, or a held key auto-repeats
OnKeyPress ==
  /\ probe.phase = "keys"
  /\ probe.nevents < MaxKeyEvents
  /\ \E key \in KeyboardKeys :
       LET current == probe.current_keys \cup {key}
           fired == IF probe.is_running
                    THEN _check_hotkeys(probe.hotkey_combinations, current)
                    ELSE {}
       IN  probe' = [probe EXCEPT
                       !.down = @ \cup {key},
                       !.current_keys = IF probe.is_running THEN current ELSE @,
                       !.fired = fired,
                       !.held_emits = [a \in HotkeyActions |->
                                         IF a \in fired THEN @[a] + 1 ELSE @[a]],
                       !.nevents = @ + 1]
  /\ UNCHANGED <<rec_vars, main_vars, run_vars, hist_vars>>

\* _on_key_release(key): a held key goes up
OnKeyRelease ==
  /\ probe.phase = "keys"
  /\ probe.nevents < MaxKeyEvents
  /\ \E key \in probe.down :
       probe' = [probe EXCEPT
                   !.down = @ \ {key},
                   !.current_keys = IF probe.is_running THEN @ \ {key} ELSE @,
                   !.fired = {},
                   !.held_emits = [a \in HotkeyActions |->
                                     IF key \in NamedKeys(probe.hotkeys, a)
                                     THEN 0 ELSE @[a]],
                   !.nevents = @ + 1]
  /\ UNCHANGED <<rec_vars, main_vars, run_vars, hist_vars>>

\* KeyboardListener.stop(), called by quit
ListenerStop ==
  /\ probe.phase = "keys"
  /\ probe.is_running
  /\ probe' = [probe EXCEPT !.is_running = FALSE, !.fired = {}]
  /\ UNCHANGED <<rec_vars, main_vars, run_vars, hist_vars>>

SpecKeys == InitKeys /\ [][OnKeyPress \/ OnKeyRelease \/ ListenerStop]_vars

\* ------------------------------------- TranscriptionEngine: loading models
MaxModelCalls == 3    \* set_model calls in one behaviour

\* TranscriptionEngine.MODEL_SIZES (three of the six names)
MODEL_SIZES == {"tiny", "base", "small"}

\* _load_model on an engine e = [model_name, model], model being the name of
\* the WhisperModel that self.model holds: an invalid name is replaced by
\* "base"; WhisperModel(...) returns the model (loads) or raises, and the
\* exception is logged and raised again
_load_model(e, loads) ==
  LET name == IF e.model_name \notin MODEL_SIZES THEN "base" ELSE e.model_name
  IN  [model_name |-> name,
       model |-> IF loads THEN name ELSE e.model,
       raised |-> ~loads]

\* set_model(model_name) on engine e, with the outcome of the load
SetModel(e, model_name, loads) ==
  IF model_name # e.model_name
  THEN _load_model([e EXCEPT !.model_name = model_name], loads)
  ELSE [model_name |-> e.model_name, model |-> e.model, raised |-> FALSE]

\* TranscriptionEngine(model_name="base") has loaded its model.  probe: the
\* engine's model_name and model, the last set_model call (its argument,
\* whether it raised, the engine before it) and the number of calls.
InitEngine ==
  /\ InitApp
  /\ probe = [phase |-> "engine", model_name |-> "base", model |-> "base",
              arg |-> "base", raised |-> FALSE,
              before |-> [model_name |-> "base", model |-> "base"],
              calls |-> 0]

\* engine.set_model(model_name) with a valid or an invalid name; a model
\* that is not in the cache has to be downloaded, which can fail
SetModelCall ==
  /\ probe.phase = "engine"
  /\ probe.calls < MaxModelCalls
  /\ \E model_name \in MODEL_SIZES \cup {"huge"}, loads \in BOOLEAN :
       LET e == [model_name |-> probe.model_name, model |-> probe.model]
           after == SetModel(e, model_name, loads)
       IN  probe' = [probe EXCEPT !.model_name = after.model_name,
                                  !.model = after.model,
                                  !.arg = model_name,
                                  !.raised = after.raised,
                                  !.before = e,
                                  !.calls = @ + 1]
  /\ UNCHANGED <<rec_vars, main_vars, run_vars, hist_vars>>

SpecEngine == InitEngine /\ [][SetModelCall]_vars

\* -------------------------------------- the application while recording
\* The state after the first toggle_recording of a fresh application with an
\* input device, its capture thread having opened the stream; ncalls counts
\* the calls made from here on.
InitRecording ==
  /\ input_device_index = "dev0"
  /\ is_recording = TRUE
  /\ audio_data = <<>>
  /\ silent_chunks = 0
  /\ recording_thread = 1
  /\ cpc = [t \in Sessions |-> IF t = 1 THEN "while" ELSE "unborn"]
  /\ cdata = [t \in Sessions |-> NoFrame]
  /\ cfile = [t \in Sessions |-> NoPath]
  /\ nframes = 0
  /\ now = 0
  /\ files = [c \in 0..MaxSessions |-> <<>>]
  /\ stream = [t \in Sessions |-> IF t = 1 THEN "open" ELSE "none"]
  /\ mainpc = "idle"
  /\ events = <<>>
  /\ active_mode = "default"
  /\ modes = load_modes({})
  /\ engine = DefaultEngine
  /\ transcription_thread = 0
  /\ tpc = [r \in Runs |-> "unborn"]
  /\ taudio = [r \in Runs |-> NoPath]
  /\ tmode = [r \in Runs |-> "None"]
  /\ tactive = [r \in Runs |-> "None"]
  /\ tengine = [r \in Runs |-> [entry |-> NoEngine, used |-> NoEngine]]
  /\ tapplied = [r \in Runs |-> [mode |-> "None", config |-> "None"]]
  /\ delivered = <<>>
  /\ captured = [t \in Sessions |-> <<>>]
  /\ user_stopped = {}
  /\ len_at_stop = [t \in Sessions |-> 0]
  /\ saved_by = [c \in 0..MaxSessions |-> 0]
  /\ save_failed = {}
  /\ finished_by = [t \in Sessions |-> 0]
  /\ toutcome = [r \in Runs |-> [kind |-> "none", text |-> <<>>]]
  /\ last_call = "none"
  /\ burst = <<>>
  /\ ncalls = 0
  /\ probe = [phase |-> "off", T |-> 0, frame |-> <<>>, silent |-> FALSE]

SpecRecording == InitRecording /\ [][Next]_vars

\* ------------------------------------------- _is_silent on chosen inputs
SampleSpread == 1     \* sample values lie within this distance of the threshold

\* thresholds the settings dialog accepts (100..2000)
ThresholdInputs == {100, 500, 1137, 2000}
\* chunk lengths; every one is a power of two
ChunkLens == {1, 2, 8, 64, 256}
\* offsets added to the first samples of a chunk
Offsets == { <<>>, <<-20, 19, 7, -7, 7, -7, 4, -4, 2, -2, 1, -1>> }

\* n samples of value c, the first ones moved by offs
Chunk(n, c, offs) ==
  [i \in 1..n |-> c + (IF i <= Len(offs) THEN offs[i] ELSE 0)]

ChunkInputs(T) ==
  UNION { { Chunk(n, c, offs) :
              c \in (T - SampleSpread)..(T + SampleSpread),
              offs \in {o \in Offsets : Len(o) <= n} } : n \in ChunkLens }

RECURSIVE SumSquares(_, _, _)
\* the exact sum of the squares of frame[lo..hi]
SumSquares(frame, lo, hi) ==
  IF lo > hi THEN 0
  ELSE IF lo = hi THEN frame[lo] * frame[lo]
  ELSE LET mid == (lo + hi) \div 2
       IN  SumSquares(frame, lo, mid) + SumSquares(frame, mid + 1, hi)

InitSilence ==
  /\ InitApp
  /\ \E T \in ThresholdInputs : \E f \in ChunkInputs(T) :
       probe = [phase |-> "in", T |-> T, frame |-> f, silent |-> FALSE]

\* recorder._is_silent(frame) with silence_threshold = T
Classify ==
  /\ probe.phase = "in"
  /\ probe' = [probe EXCEPT !.phase = "out",
                            !.silent = IsSilentAt(probe.frame, probe.T)]
  /\ UNCHANGED <<rec_vars, main_vars, run_vars, hist_vars>>

SpecSilence == InitSilence /\ [][Classify]_vars

\* --------------------------------------------- process on chosen inputs
MaxText == 3          \* the longest text built from TextAlphabet

TextAlphabet == {" ", "a", "Z", ".", "!", "?"}

RECURSIVE TextsUpTo(_)
\* every text over TextAlphabet of length n or less
TextsUpTo(n) ==
  IF n = 0 THEN { <<>> }
  ELSE TextsUpTo(n - 1) \cup
       { Append(t, c) : t \in {u \in TextsUpTo(n - 1) : Len(u) = n - 1},
                        c \in TextAlphabet }

HelloWorld == <<"h", "e", "l", "l", "o", " ", "w", "o", "r", "l", "d">>
HelloWorldOut == <<"H", "e", "l", "l", "o", " ", "w", "o", "r", "l", "d", ".">>
AlreadyPunctuated ==
  <<"A", "l", "r", "e", "a", "d", "y", " ",
    "p", "u", "n", "c", "t", "u", "a", "t", "e", "d", "!">>
PaddedText == <<" ", "t", "e", "x", "t", " ">>

TextInputs == TextsUpTo(MaxText) \cup {HelloWorld, AlreadyPunctuated, PaddedText}

\* mode.process(text) for the mode object self.modes[name]: process is one
\* method of ProcessingMode and reads neither name nor instructions
ModeProcess(name, text) == process(text)

InitProcess ==
  /\ InitApp
  /\ \E m \in modes : \E t \in TextInputs :
       probe = [phase |-> "text_in", mode |-> m, text |-> t, out |-> <<>>]

\* self.modes[mode].process(text)
ApplyProcess ==
  /\ probe.phase = "text_in"
  /\ probe' = [probe EXCEPT !.phase = "text_out",
                            !.out = ModeProcess(probe.mode, probe.text)]
  /\ UNCHANGED <<rec_vars, main_vars, run_vars, hist_vars>>

SpecProcess == InitProcess /\ [][ApplyProcess]_vars

\* self.modes[mode].process(...) applied to the text it returned before
ProcessAgain ==
  /\ probe.phase = "text_out"
  /\ probe' = [phase |-> "text_again", mode |-> probe.mode,
               text |-> probe.text, out |-> probe.out,
               again |-> ModeProcess(probe.mode, probe.out)]
  /\ UNCHANGED <<rec_vars, main_vars, run_vars, hist_vars>>

SpecProcessTwice == InitProcess /\ [][ApplyProcess \/ ProcessAgain]_vars

\* --------------------------------- one session on a scripted device feed
FeedLoud   == 5       \* the most non-silent frames at the start of a feed
FeedSilent == 20      \* the most silent frames after them

\* the frames the device will deliver: k non-silent ones, then m silent ones
SessionFeeds ==
  { [i \in 1..(k + m) |-> IF i <= k THEN LoudChunk ELSE QuietChunk] :
      k \in 0..FeedLoud, m \in 0..FeedSilent }

\* One recorder with the default configuration right after start_recording,
\* its capture thread at the loop test; nothing else calls the recorder.
\* probe holds the recorder's fields and the thread's locals (artifact: the
\* frames written to the file, <<>> for None), the frames not yet delivered
\* (rest) and the files handed to transcribe_audio (transcribed).
InitSession ==
  /\ InitApp
  /\ \E feed \in SessionFeeds :
       probe = [phase |-> "session", fed |-> feed, rest |-> feed,
                n |-> ThresholdFramesFor(default_silence_duration_tenths,
                                         default_sample_rate,
                                         default_chunk_size),
                pc |-> "while", is_recording |-> TRUE, audio_data |-> <<>>,
                silent_chunks |-> 0, data |-> <<>>, artifact |-> <<>>,
                transcribed |-> <<>>]

\* while self.is_recording:
SessionLoopTest ==
  /\ probe.pc = "while"
  /\ probe' = [probe EXCEPT !.pc = IF probe.is_recording THEN "read"
                                   ELSE "finalize"]

\* data = stream.read(...); self.audio_data.append(data)
SessionReadChunk ==
  /\ probe.pc = "read"
  /\ probe.rest # <<>>
  /\ probe' = [probe EXCEPT !.pc = "silence",
                            !.data = Head(probe.rest),
                            !.rest = Tail(probe.rest),
                            !.audio_data = Append(@, Head(probe.rest))]

\* if self._is_silent(audio_array): ... else: self.silent_chunks = 0
SessionCheckSilence ==
  /\ probe.pc = "silence"
  /\ LET s == SilenceStepAt(probe.silent_chunks, probe.data, probe.n)
     IN  probe' = [probe EXCEPT !.pc = "while",
                                !.silent_chunks = s.count,
                                !.is_recording = IF s.stop THEN FALSE ELSE @]

\* the stream is closed; audio_file = self._save_audio();
\* self.recording_finished.emit(audio_file), a TypeError for None
SessionFinalize ==
  /\ probe.pc = "finalize"
  /\ probe' = [probe EXCEPT !.artifact = probe.audio_data,
                            !.pc = IF probe.audio_data = <<>> THEN "failed"
                                   ELSE "queued"]

\* on_recording_finished(audio_file): self.transcribe_audio(audio_file)
SessionTranscribe ==
  /\ probe.pc = "queued"
  /\ probe' = [probe EXCEPT !.pc = "handed",
                            !.transcribed = Append(@, probe.artifact)]

NextSession ==
  /\ \/ SessionLoopTest
     \/ SessionReadChunk
     \/ SessionCheckSilence
     \/ SessionFinalize
     \/ SessionTranscribe
  /\ UNCHANGED <<rec_vars, main_vars, run_vars, hist_vars>>

SpecSession == InitSession /\ [][NextSession]_vars

\* ------------------------------- threshold_frames on accepted settings
\* the values the audio tab of the settings dialog offers: the rates of the
\* combo box, the chunk sizes the spin box steps through (256..4096 by 256)
\* and the durations 0.5..5.0 s by 0.1 s, in tenths
SampleRates == {8000, 16000, 22050, 44100, 48000}
ChunkSizes == {256 * i : i \in 1..16}
DurationTenths == 5..50

InitThreshold ==
  /\ InitApp
  /\ \E rate \in SampleRates, chunk \in ChunkSizes, d \in DurationTenths :
       probe = [phase |-> "frames_in", rate |-> rate, chunk |-> chunk,
                tenths |-> d, frames |-> 0]

\* threshold_frames as _record_audio computes it in a recorder built with
\* these settings
ComputeThreshold ==
  /\ probe.phase = "frames_in"
  /\ probe' = [probe EXCEPT
                 !.phase = "frames_out",
                 !.frames = ThresholdFramesFor(probe.tenths, probe.rate,
                                               probe.chunk)]
  /\ UNCHANGED <<rec_vars, main_vars, run_vars, hist_vars>>

SpecThreshold == InitThreshold /\ [][ComputeThreshold]_vars

\* ------------------------------------------- _save_audio and reading back
MaxWavFrames == 2     \* the most frames in a buffer written to a file

\* the bytes of a chunk of int16 samples, little-endian two's complement:
\* what stream.read returns and np.frombuffer(data, dtype=np.int16) decodes
RECURSIVE ToBytes(_)
ToBytes(pcm) ==
  IF pcm = <<>> THEN <<>>
  ELSE LET u == IF Head(pcm) < 0 THEN Head(pcm) + 65536 ELSE Head(pcm)
       IN  <<u % 256, u \div 256>> \o ToBytes(Tail(pcm))

\* b''.join over the frames, last frame first
RECURSIVE JoinFramesReversed(_)
JoinFramesReversed(frames) ==
  IF frames = <<>> THEN <<>>
  ELSE JoinFramesReversed(Tail(frames)) \o Head(frames)

\* b''.join(self.audio_data)
RECURSIVE JoinFrames(_)
JoinFrames(frames) ==
  IF frames = <<>> THEN <<>>
  ELSE Head(frames) \o JoinFrames(Tail(frames))

\* the file _save_audio writes: setnchannels(1), setsampwidth(2),
\* setframerate(self.sample_rate), writeframes(b''.join(self.audio_data))
WaveWrite(frames, rate) ==
  [nchannels |-> 1, sampwidth |-> 2, framerate |-> rate,
   data |-> JoinFrames(frames)]

\* the samples of a file read back as its header says: sampwidth bytes per
\* sample and channel, little-endian, signed for 16 bits
WaveRead(w) ==
  [i \in 1..(Len(w.data) \div (w.sampwidth * w.nchannels)) |->
     LET at == (i - 1) * w.sampwidth * w.nchannels
         u  == IF w.sampwidth = 2
               THEN w.data[at + 1] + 256 * w.data[at + 2]
               ELSE w.data[at + 1]
     IN  IF w.sampwidth = 2 /\ u >= 32768 THEN u - 65536 ELSE u]

\* buffers of one to MaxWavFrames chunks of one or two samples each
WavBuffers ==
  LET Samples == {-32768, -1, 256, 32767}
      Chunks  == {<<a>> : a \in Samples}
                   \cup {<<a, b>> : a \in Samples, b \in Samples}
  IN  UNION { [1..n -> Chunks] : n \in 1..MaxWavFrames }

\* probe: the chunks as sample sequences, the buffer of their bytes as
\* self.audio_data holds them, the file written and the samples read back
InitWav ==
  /\ InitApp
  /\ \E chunks \in WavBuffers :
       probe = [phase |-> "wav_in", chunks |-> chunks,
                audio_data |-> [i \in DOMAIN chunks |-> ToBytes(chunks[i])],
                wav |-> WaveWrite(<<>>, 0), samples |-> <<>>]

\* _save_audio on a non-empty buffer
SaveWav ==
  /\ probe.phase = "wav_in"
  /\ probe' = [probe EXCEPT !.phase = "wav_file",
                            !.wav = WaveWrite(probe.audio_data, sample_rate)]
  /\ UNCHANGED <<rec_vars, main_vars, run_vars, hist_vars>>

\* the file is opened for reading and all its frames are decoded
ReadWav ==
  /\ probe.phase = "wav_file"
  /\ probe' = [probe EXCEPT !.phase = "wav_read",
                            !.samples = WaveRead(probe.wav)]
  /\ UNCHANGED <<rec_vars, main_vars, run_vars, hist_vars>>

SpecWav == InitWav /\ [][SaveWav \/ ReadWav]_vars

\* =================================================================
\* Properties
\* =================================================================
AliveSessions == {t \in Sessions : Alive(t)}
LoopExited(t) == cpc[t] \in {"save", "emit", "done"}

\* a capture thread that ended in the except clause after a failed read: the
\* only way to end with the stream still open
ReadFailed(t) == cpc[t] = "done" /\ stream[t] = "open"
\* a capture thread that ended in the except clause because its stream could
\* not be opened: the only way to end without a stream
OpenFailed(t) == cpc[t] = "done" /\ stream[t] = "none"
\* run r is inside engine.transcribe
InEngine(r) == tpc[r] \in {"transcribing", "decoding"}

\* deliveries on_transcription_complete has received from run r
DeliveredFor(r) == {i \in DOMAIN delivered : delivered[i].run = r}
\* transcription_complete signals of run r still queued to the main thread
PendingFor(r) ==
  {i \in DOMAIN events :
     events[i].sig = "transcription_complete" /\ events[i].from = r}

\* the number of silent frames at the end of a frame sequence
RECURSIVE TrailingSilent(_)
TrailingSilent(frames) ==
  IF frames = <<>> THEN 0
  ELSE IF ~_is_silent(frames[Len(frames)].pcm) THEN 0
  ELSE 1 + TrailingSilent(SubSeq(frames, 1, Len(frames) - 1))

\* ------------------------------------------------------------------ C1
\* C1: in every reachable state at most one capture loop is inside its
\* read-and-append body, whatever the interleaving of toggle/start/stop
\* calls with the capture threads' steps.
C1_AtMostOneCaptureLoop ==
  Cardinality({t \in Sessions : InLoop(t)}) <= 1

\* ------------------------------------------------------------------ C2
\* C2: at most one transcription is in flight: no two TranscriptionThreads
\* are inside engine.transcribe at the same time (a later run waits for the
\* earlier one).
C2_AtMostOneTranscription ==
  Cardinality({r \in Runs : InEngine(r)}) <= 1

\* ------------------------------------------------------------------ C3
\* C3: every pipeline run leads to exactly one invocation of
\* on_transcription_complete, whether the engine returns or raises: a run
\* that has not finished has emitted nothing, a finished run has exactly one
\* result that is either queued to the main thread or delivered, and no run
\* is ever delivered twice.
C3_DeliveredExactlyOnce ==
  \A r \in Runs :
    /\ Cardinality(DeliveredFor(r)) <= 1
    /\ Cardinality(DeliveredFor(r)) + Cardinality(PendingFor(r))
         = IF tpc[r] = "done" THEN 1 ELSE 0

\* two finished runs, one whose engine call returned and one whose engine
\* call raised, each delivered once
C3_Witness ==
  \E r, q \in Runs :
    /\ toutcome[r].kind = "raise" /\ toutcome[q].kind = "text"
    /\ Cardinality(DeliveredFor(r)) = 1 /\ Cardinality(DeliveredFor(q)) = 1
    /\ events = <<>>

\* ------------------------------------------------------------------ C4
\* C4: when engine.transcribe raises for a run, the run is over, the only
\* result it ever hands to the delivery callback is the error text
\* "Error: <message>", and no transcript text is delivered for it.
C4_RaiseGivesOneErrorResult ==
  \A r \in Runs :
    toutcome[r].kind = "raise" =>
      /\ tpc[r] = "done"
      /\ Cardinality(DeliveredFor(r)) + Cardinality(PendingFor(r)) = 1
      /\ \A i \in DeliveredFor(r) :
           delivered[i].text = ErrorText(toutcome[r].text)
      /\ \A i \in PendingFor(r) :
           events[i].text = ErrorText(toutcome[r].text)

\* a run whose engine call raised has delivered its error text and the main
\* thread is back in its event loop with nothing queued
C4_Witness ==
  \E r \in Runs :
    /\ toutcome[r].kind = "raise"
    /\ \E i \in DeliveredFor(r) : delivered[i].text = ErrorText(toutcome[r].text)
    /\ mainpc = "idle" /\ events = <<>>
    /\ \A q \in Runs : tpc[q] \in {"unborn", "done"}

\* ------------------------------------------------------------------ C5
\* C5: the artifact a session writes holds exactly the frames that session's
\* capture loop read, in arrival order: none lost, none of another session.
C5_ArtifactIsTheSessionsFrames ==
  \A c \in DOMAIN files :
    saved_by[c] # 0 => files[c] = captured[saved_by[c]]

\* ------------------------------------------------------------------ C6
\* C6: every session that has left its loop (by a stop or by the silence
\* timeout, not by a device error) with at least one captured frame, has
\* written its file and has run to its end was finalized exactly once:
\* recording_finished was emitted once for it.
C6_FinalizedExactlyOnce ==
  \A t \in Sessions :
    (cpc[t] = "done" /\ ~ReadFailed(t) /\ t \notin save_failed
       /\ captured[t] # <<>>) =>
      finished_by[t] = 1

\* ------------------------------------------------------------------ C7
\* C7: with threshold_frames = n >= 1, no external stop and no device
\* error, a capture loop never reads past n consecutive silent frames, and
\* when it has left its loop the frames it read end in exactly n silent
\* frames (it stops after frame k+n, not earlier and not later).
C7_AutoStopAfterExactlyN ==
  \A t \in Sessions :
    (t \notin user_stopped /\ ~ReadFailed(t) /\ ~OpenFailed(t)) =>
      /\ TrailingSilent(captured[t]) <= threshold_frames
      /\ LoopExited(t) => TrailingSilent(captured[t]) = threshold_frames

\* ------------------------------------------------------------------ C8
\* C8: _is_silent(frame) is true exactly when the root mean square of the
\* frame is below the threshold T; over integers, exactly when the sum of
\* the squared samples is below T*T*len(frame).
C8_SilentIffRmsBelowThreshold ==
  probe.phase = "out" =>
    (probe.silent <=>
       SumSquares(probe.frame, 1, Len(probe.frame))
         < probe.T * probe.T * Len(probe.frame))

\* ------------------------------------------------------------------ C9
\* C9 as stated: after two toggle_recording calls in rapid succession from
\* Idle (an input device being present) exactly one session is active and
\* still recording, the second call having been a no-op.
C9_ToggleTwiceKeepsRecording ==
  (burst = <<"toggle", "toggle">> /\ input_device_index = "dev0") =>
    (is_recording /\ Cardinality(AliveSessions) = 1)

\* C9 amended: two toggle_recording calls in rapid succession from Idle start
\* one session and then stop it (the second call is stop_recording: the flag
\* is clear and the one capture thread the first call created has been told
\* to stop); it is start_recording that is a no-op when repeated: two
\* start_recording calls in rapid succession from Idle leave exactly one
\* session recording.
C9_ToggleTwiceStartsThenStops ==
  /\ (burst = <<"toggle", "toggle">> /\ input_device_index = "dev0") =>
       /\ ~is_recording
       /\ AliveSessions = {recording_thread}
       /\ recording_thread \in user_stopped
  /\ (burst = <<"start", "start">> /\ input_device_index = "dev0") =>
       /\ is_recording
       /\ AliveSessions = {recording_thread}
       /\ recording_thread \notin user_stopped

\* both toggles have been made and the second is waiting in join
C9_Witness ==
  /\ burst = <<"toggle", "toggle">>
  /\ input_device_index = "dev0"
  /\ mainpc = "join"

\* ------------------------------------------------------------------ C10
\* C10: a stop_recording call made while the recorder is not recording
\* changes nothing: is_recording, the buffer, the silent-frame count, the
\* threads, the files and the queued signals are as before, no
\* recording_finished is emitted, and the call returns without waiting.
C10_StopWhenNotRecordingIsNoOp ==
  [][(StopRecordingCall /\ ~is_recording) =>
       UNCHANGED <<rec_vars, main_vars, run_vars, captured, user_stopped,
                   len_at_stop, saved_by, save_failed, finished_by, toutcome>>]_vars

\* stop_recording has just been called on a recorder whose session had
\* already been stopped by silence
C10_Witness ==
  /\ last_call = "stop_noop"
  /\ \E t \in Sessions :
       /\ t \notin user_stopped
       /\ captured[t] # <<>>
       /\ LoopExited(t)

\* ------------------------------------------------------------------ C11
\* C11: a start_recording call made while is_recording is true changes
\* nothing: the buffer and the silent-frame count are not reset, no capture
\* thread is created, and the call returns normally.
C11_StartWhenRecordingIsNoOp ==
  [][(StartRecordingCall /\ is_recording) =>
       UNCHANGED <<rec_vars, main_vars, run_vars, captured, user_stopped,
                   len_at_stop, saved_by, save_failed, finished_by, toutcome>>]_vars

\* start_recording has just been called on a recorder whose session has
\* frames in the buffer and a non-zero silent-frame count
C11_Witness ==
  /\ last_call = "start_noop"
  /\ is_recording
  /\ audio_data # <<>>
  /\ silent_chunks > 0
  /\ Cardinality(Created) = 1

\* ------------------------------------------------------------------ C12
\* the text between the first and the last non-whitespace character
Trimmed(text) ==
  LET ns == {i \in 1..Len(text) : text[i] \notin Whitespace}
  IN  IF ns = {} THEN <<>>
      ELSE SubSeq(text, CHOOSE i \in ns : \A j \in ns : i <= j,
                        CHOOSE i \in ns : \A j \in ns : i >= j)

C13_RawModeIsIdentity ==
  (probe.phase = "text_out" /\ probe.mode = "raw") => probe.out = probe.text

\* ------------------------------------------------------------------ C14
\* C14: the mode whose process() is applied to a run's transcript is the
\* mode that was active when transcribe_audio started the run, also when the
\* settings dialog has changed config["active_mode"] while the run was
\* transcribing.
C14_ModeIsTheOneAtStart ==
  \A r \in Runs :
    (tpc[r] = "done" /\ toutcome[r].kind = "text") =>
      tapplied[r].mode = ModeFor(tactive[r])

\* a run whose transcript was processed after the settings dialog had made
\* another mode active
C14_Witness ==
  \E r \in Runs :
    /\ tpc[r] = "done" /\ toutcome[r].kind = "text"
    /\ tapplied[r].config # tactive[r]
    /\ tapplied[r].mode = tactive[r]

\* nothing is running and nothing is queued
Quiescent ==
  /\ mainpc = "idle"
  /\ events = <<>>
  /\ \A t \in Sessions : ~Alive(t)
  /\ \A r \in Runs : tpc[r] \in {"unborn", "done"}

\* deliveries of runs that transcribed a file written by capture thread t
ResultsForSession(t) ==
  {i \in DOMAIN delivered :
     LET f == taudio[delivered[i].run]
     IN  f.kind = "rec" /\ saved_by[f.ts] = t}

\* ------------------------------------------------------------------ C15
\* C15: no capture thread that has ended leaves its input stream open,
\* whichever way it left the loop (user stop, silence, an exception).
C15_StreamClosedOnEveryExit ==
  \A t \in Sessions : cpc[t] = "done" => stream[t] # "open"

\* ------------------------------------------------------------------ C16
\* C16: a failed frame read does not cost the session its frames: a session
\* that met a read error still has the frames it captured finalized into an
\* artifact.
C16_ReadErrorKeepsTheSession ==
  \A t \in Sessions :
    (ReadFailed(t) /\ captured[t] # <<>>) =>
      \E c \in DOMAIN files : saved_by[c] = t /\ files[c] = captured[t]

\* ------------------------------------------------------------------ C17
\* C17: results reach the delivery callback in the order in which their
\* runs were submitted to transcribe_audio.
C17_DeliveredInSubmissionOrder ==
  \A i, j \in DOMAIN delivered :
    i < j => delivered[i].run < delivered[j].run

\* ------------------------------------------------------------------ C18
\* C18: after stop_recording has cleared the flag, a capture loop appends at
\* most one further frame (the read in progress) before it exits.
C18_AtMostOneFrameAfterStop ==
  \A t \in user_stopped : Len(captured[t]) <= len_at_stop[t] + 1

\* ------------------------------------------------------------------ C19
\* C19: a session that stop_recording stopped before its first read and
\* that has left its loop with zero captured frames is not finalized: no
\* recording_finished is emitted for it, so no transcription is attempted.
C19_EmptySessionNotTranscribed ==
  \A t \in user_stopped :
    (LoopExited(t) /\ captured[t] = <<>>) => finished_by[t] = 0

\* ------------------------------------------------------------------ C20
\* C20: once everything has come to rest, every session that ended without
\* an artifact (empty buffer, capture thread aborted) has put an error
\* result before the delivery callback.
C20_FailedSessionSurfacesError ==
  Quiescent =>
    \A t \in Sessions :
      (cpc[t] = "done" /\ finished_by[t] = 0) => ResultsForSession(t) # {}

\* ------------------------------------------------------------------ C21
\* C21: a start for which no input device can be opened never shows
\* is_recording true: with no device index found, toggle_recording and
\* start_recording leave the flag clear, and when p.open raises in the
\* capture thread the flag is not set at that moment; such a thread has
\* captured no frame, written no file and emitted no recording_finished.
C21_NoDeviceNeverRecording ==
  /\ [](\A t \in Sessions :
          OpenFailed(t) =>
            /\ captured[t] = <<>>
            /\ finished_by[t] = 0
            /\ \A c \in DOMAIN files : saved_by[c] # t)
  /\ [][/\ ((ToggleRecording \/ StartRecordingCall)
              /\ input_device_index = "none") => ~is_recording'
        /\ \A t \in Sessions : OpenFails(t) => ~is_recording]_vars

\* ------------------------------------------------------------------ C22
\* a run has ended: a capture thread has finished (after its emit, or in the
\* except clause) or a transcription thread has
RunEnded ==
  \/ \E t \in Sessions : cpc[t] = "done"
  \/ \E r \in Runs : tpc[r] = "done"

\* is_recording is false, the main thread is in its event loop, and no
\* capture or transcription thread is running
PipelineIdle ==
  /\ Idle
  /\ \A r \in Runs : tpc[r] \in {"unborn", "done"}

C23_DefaultModeAlwaysPresent == "default" \in modes

\* ------------------------------------------------------------------ C26
\* the texts run r has put before on_transcription_complete, queued or
\* delivered
ResultTexts(r) ==
  {delivered[i].text : i \in DeliveredFor(r)}
    \cup {events[i].text : i \in PendingFor(r)}

\* C26: a run started while config["active_mode"] named no mode of the map
\* was given the default mode, and when the engine returned a text for it
\* the run handed over that text processed, not an error.
C26_UnknownModeFallsBackToDefault ==
  \A r \in Runs :
    (tpc[r] # "unborn" /\ tmode[r] # tactive[r]) =>
      /\ tmode[r] = "default"
      /\ (tpc[r] = "done" /\ toutcome[r].kind = "text") =>
           ResultTexts(r) = {process(toutcome[r].text)}

\* ------------------------------------------------------------------ C27
\* a pipeline run is active: a recording is on, a capture or transcription
\* thread is running, or a signal of a run waits to be handled
RunActive == is_recording \/ ~Quiescent

\* C27: no step changes the keys of the mode map while a pipeline run is
\* active, that is between the start of a recording and the delivery of its
\* result.
C27_ModesFixedDuringRun ==
  [][modes' # modes => ~RunActive]_vars

\* ------------------------------------------------------------------ C24
\* the non-silent frames of a feed
LoudFrames(feed) == Cardinality({i \in DOMAIN feed : feed[i] = LoudChunk})

\* C24 as stated: with threshold_frames = 15, fed 5 non-silent frames and
\* then 20 silent ones, the session stops itself after frame 20, its
\* artifact holds all 25 frames and transcription is invoked exactly once,
\* with that artifact.
C24_ArtifactHoldsAll25Frames ==
  (/\ probe.phase = "session" /\ probe.n = 15
   /\ LoudFrames(probe.fed) = 5 /\ Len(probe.fed) = 25
   /\ probe.pc = "handed") =>
     /\ probe.artifact = probe.fed
     /\ probe.transcribed = <<probe.artifact>>

\* C24 amended: with threshold_frames = n, fed k non-silent frames and then
\* m >= n silent ones, the capture loop reads exactly k + n frames (it
\* stops itself after the n-th consecutive silent frame and reads no frame
\* after it), its artifact holds those k + n frames in order, and
\* transcription is invoked exactly once, with that artifact; fed fewer than
\* n silent frames the session does not stop itself.
C24_ArtifactHoldsFramesUpToStop ==
  probe.phase = "session" =>
    LET k == LoudFrames(probe.fed)
        m == Len(probe.fed) - k
    IN  /\ Len(probe.audio_data) <= k + probe.n
        /\ Len(probe.transcribed) <= 1
        /\ probe.pc \in {"finalize", "queued", "handed", "failed"} =>
             /\ m >= probe.n
             /\ probe.audio_data = SubSeq(probe.fed, 1, k + probe.n)
        /\ probe.pc \in {"queued", "handed"} =>
             probe.artifact = SubSeq(probe.fed, 1, k + probe.n)
        /\ probe.pc = "handed" => probe.transcribed = <<probe.artifact>>
        /\ probe.pc # "failed"

\* the session fed 5 non-silent and 20 silent frames has stopped itself and
\* its artifact of 20 frames has been handed to transcribe_audio
C24_Witness ==
  /\ probe.phase = "session" /\ probe.n = 15
  /\ LoudFrames(probe.fed) = 5 /\ Len(probe.fed) = 25
  /\ probe.pc = "handed"
  /\ Len(probe.artifact) = 20
  /\ Len(probe.rest) = 5
  /\ probe.transcribed = <<probe.artifact>>

\* ------------------------------------------------------------------ C25
\* C25: for every sample rate, chunk size and silence duration the settings
\* dialog accepts, threshold_frames is greater than 0, so that one silent
\* frame alone does not stop a recording.
C25_ThresholdFramesPositive ==
  probe.phase = "frames_out" =>
    /\ probe.frames > 0
    /\ ~SilenceStepAt(0, QuietChunk, probe.frames).stop

\* ------------------------------------------------------------------ C28
\* C28: the model and the language a transcribe call works with are the
\* ones the engine had when the call started: a set_model or set_language
\* made while the call is in progress does not reach it (and a call started
\* after the setter returned starts with, and so uses, the new values).
C28_SettersReachNextCallOnly ==
  \A r \in Runs :
    tpc[r] \in {"decoding", "done"} => tengine[r].used = tengine[r].entry

\* ------------------------------------------------------------------ C29
\* the samples of a sequence of chunks, in order
RECURSIVE FlattenSamples(_)
FlattenSamples(chunks) ==
  IF chunks = <<>> THEN <<>>
  ELSE Head(chunks) \o FlattenSamples(Tail(chunks))

\* C29: the file _save_audio writes is mono, 16-bit, at the configured
\* sample rate, its frame data are the bytes of the buffered frames in
\* buffer order, and reading it back yields exactly the samples that were
\* captured, in order.
C29_WavRoundTrip ==
  /\ probe.phase \in {"wav_file", "wav_read"} =>
       /\ probe.wav.nchannels = 1
       /\ probe.wav.sampwidth = 2
       /\ probe.wav.framerate = sample_rate
       /\ Len(probe.wav.data) = 2 * Len(FlattenSamples(probe.chunks))
       /\ \A i \in DOMAIN probe.audio_data :
            LET before == Len(JoinFrames(SubSeq(probe.audio_data, 1, i - 1)))
            IN  SubSeq(probe.wav.data, before + 1,
                       before + Len(probe.audio_data[i]))
                  = probe.audio_data[i]
  /\ probe.phase = "wav_read" =>
       probe.samples = FlattenSamples(probe.chunks)

\* a buffer of two different frames, with negative and extreme samples, has
\* been written and read back
C29_Witness ==
  /\ probe.phase = "wav_read"
  /\ probe.chunks = << <<-32768, 256>>, <<-1>> >>
  /\ probe.samples = <<-32768, 256, -1>>
  /\ probe.wav.data = <<0, 128, 0, 1, 255, 255>>

\* ------------------------------------------------------------------ C30
\* C30: a toggle_recording made while a run is inside engine.transcribe and
\* no recording is on starts a new session (an input device being present)
\* and leaves the run and the queued signals as they are; under fair
\* scheduling every run that is inside engine.transcribe has its result
\* delivered to on_transcription_complete.
C30_ToggleStartsWhileTranscribing ==
  /\ [][(/\ ToggleRecording
         /\ \E r \in Runs : InEngine(r)
         /\ ~is_recording
         /\ input_device_index # "none") =>
          /\ is_recording'
          /\ Cardinality(Created') = Cardinality(Created) + 1
          /\ cpc'[recording_thread'] = "open"
          /\ UNCHANGED <<run_vars, events, transcription_thread, toutcome>>]_vars
  /\ \A r \in Runs : InEngine(r) ~> (DeliveredFor(r) # {})

\* toggle_recording has just started the second session while the run of
\* the first one is inside engine.transcribe
C30_Witness ==
  /\ last_call = "toggle"
  /\ is_recording
  /\ recording_thread = 2 /\ cpc[2] = "open"
  /\ \E r \in Runs : InEngine(r) /\ taudio[r].kind = "rec"

\* ------------------------------------------------------------------ C31
\* the file recording_<c>.wav is still to be read: a recording_finished
\* signal carrying its path is queued, or a run given that path has not
\* come back from engine.transcribe
AwaitsReading(c) ==
  \/ \E i \in DOMAIN events :
       events[i].sig = "recording_finished" /\ events[i].file = RecPath(c)
  \/ \E r \in Runs :
       taudio[r] = RecPath(c) /\ tpc[r] \in {"start", "transcribing", "decoding"}

\* C31: a finalized session's artifact stays intact until the engine has
\* read it: no _save_audio changes the content of a file whose path is queued
\* for transcription or is being transcribed, also when two sessions are
\* finalized within the same clock second.
C31_ArtifactIntactUntilRead ==
  [][\A c \in DOMAIN files : AwaitsReading(c) => files'[c] = files[c]]_vars

\* ------------------------------------------------------------------ C32
\* C32: the silence check adds exactly one to silent_chunks on a silent
\* frame and sets it to zero on a non-silent one, start_recording has set it
\* to zero when it has started a session, silent_chunks is never negative,
\* and a capture loop standing at its loop test with the flag set (it goes
\* on recording) finds silent_chunks below threshold_frames.
C32_SilentChunksCountsConsecutiveSilence ==
  /\ [](/\ silent_chunks >= 0
        /\ \A t \in Sessions :
             (cpc[t] = "while" /\ is_recording) =>
               silent_chunks < threshold_frames)
  /\ [][/\ \A t \in Sessions :
             CheckSilence(t) =>
               silent_chunks' = IF _is_silent(cdata[t].pcm)
                                THEN silent_chunks + 1 ELSE 0
        /\ Cardinality(Created') > Cardinality(Created) => silent_chunks' = 0]_vars

\* ------------------------------------------------------------------ C33
\* recording_finished signals queued to the main thread
PendingFinished == {i \in DOMAIN events : events[i].sig = "recording_finished"}

\* C33: the steps of a session's finalization are ordered.  A capture thread
\* that is writing its artifact or is about to emit has closed its stream;
\* a thread about to emit a path has written a file there; each thread emits
\* recording_finished at most once, as its last step; and every run given a
\* recorded file answers one recording_finished that was emitted and taken
\* from the queue before: runs on recorded files and queued signals together
\* are as many as the signals emitted.
C33_FinalizationIsOrdered ==
  /\ \A t \in Sessions :
       /\ cpc[t] \in {"save", "emit"} => stream[t] = "closed"
       /\ (cpc[t] = "emit" /\ cfile[t] # NoPath) =>
            (t \notin save_failed /\ files[cfile[t].ts] # <<>>)
       /\ finished_by[t] \in {0, 1}
       /\ finished_by[t] = 1 => (cpc[t] = "done" /\ stream[t] = "closed")
  /\ \A i \in PendingFinished : finished_by[events[i].from] = 1
  /\ Cardinality({r \in Runs : taudio[r].kind = "rec"})
       + Cardinality(PendingFinished)
       = Cardinality({t \in Sessions : finished_by[t] = 1})

\* a session has been finalized and the run transcribing its file is inside
\* engine.transcribe
C33_Witness ==
  \E t \in Sessions, r \in Runs :
    /\ finished_by[t] = 1 /\ captured[t] # <<>>
    /\ taudio[r].kind = "rec" /\ saved_by[taudio[r].ts] = t
    /\ InEngine(r)
    /\ PendingFinished = {}

\* ------------------------------------------------------------------ C34
\* C34: one invocation of quit terminates and ends the application: it never
\* ends in an exception, it performs none of its steps (stopping the
\* recorder, stopping the listener, saving the configuration, hiding the
\* tray icon) more than once, and when it is over the recorder and the
\* listener are stopped and QApplication.quit has been called.
C34_QuitTerminatesOnce ==
  probe.phase = "quit" =>
    /\ probe.pc # "raised"
    /\ probe.stop_calls <= 1 /\ probe.listener_stops <= 1
    /\ probe.saves <= 1 /\ probe.hides <= 1
    /\ probe.pc = "over" =>
         (~is_recording /\ ~probe.is_running /\ probe.app_quits = 1)

\* ------------------------------------------------------------------ C35
\* C35: while a hotkey combination is held down its signal is emitted
\* exactly once: for an action whose hotkey string names recognised keys
\* only, no more than one signal is emitted between two releases of keys of
\* the combination, whatever keys are pressed or repeat meanwhile.
C35_HeldHotkeyEmitsOnce ==
  probe.phase = "keys" =>
    \A a \in HotkeyActions :
      NamedKeys(probe.hotkeys, a) \subseteq KeyboardKeys =>
        probe.held_emits[a] <= 1

\* ------------------------------------------------------------------ C36
\* C36: a hotkey action's signal is emitted only while the listener is
\* running and every key named in the action's hotkey string is held, and
\* an action whose hotkey string names no recognised key is never
\* triggered.
C36_EmitsOnlyForItsKeys ==
  probe.phase = "keys" =>
    \A a \in probe.fired :
      /\ probe.is_running
      /\ NamedKeys(probe.hotkeys, a) \subseteq probe.down
      /\ NamedKeys(probe.hotkeys, a) \cap KeyboardKeys # {}

\* ------------------------------------------------------------------ C37
\* C37: after show_settings has ended with the dialog rejected, the
\* application's configuration and its mode map are what they were when the
\* dialog was opened, whatever was done in the mode editor meanwhile.
C37_CancelChangesNothing ==
  probe.phase = "rejected" =>
    /\ modes = probe.modes
    /\ active_mode = probe.active_mode
    /\ engine = probe.engine

\* ------------------------------------------------------------------ C38
\* C38: after set_model(m) has returned or raised, model_name names the
\* model that is loaded; an invalid name has been replaced by "base"; a call
\* with the current name changes nothing and loads nothing; and when the
\* load failed the engine reports and holds the model it had before.
C38_ModelNameNamesLoadedModel ==
  (probe.phase = "engine" /\ probe.calls > 0) =>
    /\ probe.model_name = probe.model
    /\ probe.model_name \in MODEL_SIZES
    /\ (probe.arg \notin MODEL_SIZES /\ ~probe.raised) =>
         probe.model_name = "base"
    /\ probe.arg = probe.before.model_name =>
         (~probe.raised /\ probe.model = probe.before.model
            /\ probe.model_name = probe.before.model_name)
    /\ probe.raised =>
         (probe.model_name = probe.before.model_name
            /\ probe.model = probe.before.model)

====
